---- MODULE Spec2Model ----
(***************************************************************************)
(* Model of the HTML serialization engine of package h (assaidy/hyper):    *)
(* Text, RawText, Element, the pooled scratch buffer of Element.Render,    *)
(* renderElement / renderChildren / renderAttrs.                           *)
(*                                                                         *)
(* A Go string is modelled as a sequence of one-character strings, so     *)
(* that escaping, trimming and replacing work on characters as the code   *)
(* does.  An error value is a string, "nil" being Go's nil error.         *)
(***************************************************************************)
EXTENDS Integers, Sequences, FiniteSets, TLC

VARIABLES
    shared,   \* the tree built before the renders start, shared by the goroutines
    pool,     \* bufferPool: the set of buffers resting in the sync.Pool
    bufs,     \* the bytes held by each *bytes.Buffer
    stack,    \* per goroutine: the active Element.Render frames, innermost last
    call,     \* per goroutine: the tree and the destination of its top-level call
    writes,   \* per goroutine: the Write calls its destination received, in order
    ret,      \* per goroutine: "idle", "running", or the error Render returned
    ncalls,   \* number of top-level Render calls started
    input,    \* the constructor call that built the tree: its name and arguments
    fcalls    \* the calls that constructor made to its function argument, in order

vars == <<shared, pool, bufs, stack, call, writes, ret, ncalls, input, fcalls>>

(***************************************************************************)
(* Bounds of the model.                                                    *)
(***************************************************************************)
NumProcs == 2     \* goroutines calling Render concurrently
MaxCalls == 2     \* top-level Render calls in one behaviour
MaxAttrs == 2     \* attributes on a generated element
MaxKids  == 2     \* children of a generated element

Procs == 1 .. NumProcs

(***************************************************************************)
(* Strings.                                                                *)
(***************************************************************************)
\* A character is a one-character string.  strings.TrimSpace trims the
\* characters of unicode.IsSpace: '\t', '\n', '\v', '\f', '\r', ' ',
\* U+0085, U+00A0, U+1680, U+2000 .. U+200A, U+2028, U+2029, U+202F, U+205F
\* and U+3000.  TLA+ has no escape for the ones below: each string holds
\* the character itself where a TLA+ string can hold it, and the name of
\* its code point where it cannot.
VT == ""            \* U+000B, vertical tab ('\v')
NEL == ""           \* U+0085, next line
NBSP == " "          \* U+00A0, no-break space
OghamSpace == " "    \* U+1680, ogham space mark
WideSpaces ==
    { "U+2000", "U+2001", "U+2002", "U+2003", "U+2004", "U+2005", "U+2006",
      "U+2007", "U+2008", "U+2009", "U+200A",   \* en quad .. hair space
      "U+2028", "U+2029",                       \* line and paragraph separator
      "U+202F", "U+205F", "U+3000" }            \* narrow, math, ideographic
LineSeparator == "U+2028"

IsSpace(c) ==
    c \in {" ", "\t", "\n", "\r", "\f", VT, NEL, NBSP, OghamSpace} \cup WideSpaces

RECURSIVE Concat(_)
Concat(ss) == IF ss = <<>> THEN <<>> ELSE Head(ss) \o Concat(Tail(ss))

\* A bug to test the claims against: the quote characters left as they are.
EscapeCharKeepsQuotes(c) ==
    CASE c = "&"  -> <<"&", "a", "m", "p", ";">>
      [] c = "<"  -> <<"&", "l", "t", ";">>
      [] c = ">"  -> <<"&", "g", "t", ";">>
      [] OTHER    -> <<c>>

\* html.EscapeString: the five replacements of the standard library's htmlEscaper.
EscapeChar(c) ==
    CASE c = "&"  -> <<"&", "a", "m", "p", ";">>
      [] c = "'"  -> <<"&", "#", "3", "9", ";">>
      [] c = "<"  -> <<"&", "l", "t", ";">>
      [] c = ">"  -> <<"&", "g", "t", ";">>
      [] c = "\"" -> <<"&", "#", "3", "4", ";">>
      [] OTHER    -> <<c>>

\* A bug to test the claims against: the replacements applied one after the
\* other to the whole string, so that the '&' of an entity is escaped again.
EscapeStringTwice(s) ==
    LET once == Concat([i \in 1 .. Len(s) |-> EscapeChar(s[i])])
    IN  Concat([i \in 1 .. Len(once) |-> EscapeChar(once[i])])

\* One pass over the string: each character is replaced once.
EscapeString(s) == Concat([i \in 1 .. Len(s) |-> EscapeChar(s[i])])

\* A bug to test the claims against: attribute values escaped as body text is.
QuoteCharAsBody(c) == EscapeChar(c)

\* strings.ReplaceAll(v, `"`, "&quot;")
QuoteChar(c) == IF c = "\"" THEN <<"&", "q", "u", "o", "t", ";">> ELSE <<c>>

ReplaceQuotes(v) == Concat([i \in 1 .. Len(v) |-> QuoteChar(v[i])])

\* strings.TrimSpace: drop leading and trailing white space.
RECURSIVE TrimLeft(_)
TrimLeft(s) == IF s # <<>> /\ IsSpace(Head(s)) THEN TrimLeft(Tail(s)) ELSE s

RECURSIVE TrimRight(_)
TrimRight(s) ==
    IF s # <<>> /\ IsSpace(s[Len(s)]) THEN TrimRight(SubSeq(s, 1, Len(s) - 1)) ELSE s

TrimSpace(s) == TrimRight(TrimLeft(s))

(***************************************************************************)
(* Nodes.  kind is the dynamic type behind the Node interface:             *)
(*   "Element"    Element value (what every constructor returns)           *)
(*   "Text"       Text                                                     *)
(*   "RawText"    RawText                                                  *)
(*   "ElementPtr" *Element: a Node whose Render is Element.Render, but     *)
(*                which the type switch of renderChildren does not match   *)
(*   "Custom"     any other Node: its Render writes s to the writer it is  *)
(*                given and returns err                                    *)
(* An attribute value is string, bool, nil or another type ("int").        *)
(***************************************************************************)
Attr(k, vk, str, b) == [key |-> k, vkind |-> vk, str |-> str, bool |-> b]
StrAttr(k, v)  == Attr(k, "string", v, FALSE)
BoolAttr(k, b) == Attr(k, "bool", <<>>, b)
NilAttr(k)     == Attr(k, "nil", <<>>, FALSE)
IntAttr(k)     == Attr(k, "int", <<>>, FALSE)

MkNode(kind, tag, void, attrs, kids, s, err) ==
    [kind |-> kind, Tag |-> tag, IsVoid |-> void, Attrs |-> attrs,
     Children |-> kids, s |-> s, err |-> err]

Element(tag, void, attrs, kids) == MkNode("Element", tag, void, attrs, kids, <<>>, "nil")
Text(s)         == MkNode("Text", <<>>, FALSE, <<>>, <<>>, s, "nil")
RawText(s)      == MkNode("RawText", <<>>, FALSE, <<>>, <<>>, s, "nil")
ElementPtr(e)   == [e EXCEPT !.kind = "ElementPtr"]
Deref(n)        == [n EXCEPT !.kind = "Element"]
Custom(out, err) == MkNode("Custom", <<>>, FALSE, <<>>, <<>>, out, err)

(***************************************************************************)
(* renderAttrs: the bytes appended to the buffer and the error returned.   *)
(* The bytes of the attributes before a malformed one stay in the buffer.  *)
(***************************************************************************)
\* A bug to test the claims against: a boolean attribute written whatever its value.
renderAttrBoolAlways(attr, buf) ==
    LET k == TrimSpace(attr.key)
    IN  IF k = <<>> THEN [buf |-> buf, err |-> "ErrEmptyKey"]
        ELSE IF attr.vkind = "nil" THEN [buf |-> buf, err |-> "ErrNilValue"]
        ELSE IF attr.vkind = "string" THEN
            [buf |-> buf \o <<" ">> \o EscapeString(k) \o <<"=", "\"">>
                         \o ReplaceQuotes(attr.str) \o <<"\"">>,
             err |-> "nil"]
        ELSE IF attr.vkind = "bool" THEN
            [buf |-> buf \o <<" ">> \o EscapeString(k), err |-> "nil"]
        ELSE [buf |-> buf, err |-> "ErrBadType"]

\* A bug to test the claims against: a malformed attribute skipped, not reported.
renderAttrSkipMalformed(attr, buf) ==
    LET k == TrimSpace(attr.key)
    IN  IF k # <<>> /\ attr.vkind = "string" THEN
            [buf |-> buf \o <<" ">> \o EscapeString(k) \o <<"=", "\"">>
                         \o ReplaceQuotes(attr.str) \o <<"\"">>,
             err |-> "nil"]
        ELSE IF k # <<>> /\ attr.vkind = "bool" /\ attr.bool THEN
            [buf |-> buf \o <<" ">> \o EscapeString(k), err |-> "nil"]
        ELSE [buf |-> buf, err |-> "nil"]

\* A bug to test the claims against: boolean values taken for values of a wrong type.
renderAttrRejectsBool(attr, buf) ==
    LET k == TrimSpace(attr.key)
    IN  IF k = <<>> THEN [buf |-> buf, err |-> "ErrEmptyKey"]
        ELSE IF attr.vkind = "nil" THEN [buf |-> buf, err |-> "ErrNilValue"]
        ELSE IF attr.vkind = "string" THEN
            [buf |-> buf \o <<" ">> \o EscapeString(k) \o <<"=", "\"">>
                         \o ReplaceQuotes(attr.str) \o <<"\"">>,
             err |-> "nil"]
        ELSE [buf |-> buf, err |-> "ErrBadType"]

\* A bug to test the claims against: the value looked at before the key, so
\* that a boolean false is omitted whatever its key.
renderAttrValueFirst(attr, buf) ==
    LET k == TrimSpace(attr.key)
    IN  IF attr.vkind = "bool" /\ ~attr.bool THEN [buf |-> buf, err |-> "nil"]
        ELSE IF k = <<>> THEN [buf |-> buf, err |-> "ErrEmptyKey"]
        ELSE IF attr.vkind = "nil" THEN [buf |-> buf, err |-> "ErrNilValue"]
        ELSE IF attr.vkind = "string" THEN
            [buf |-> buf \o <<" ">> \o EscapeString(k) \o <<"=", "\"">>
                         \o ReplaceQuotes(attr.str) \o <<"\"">>,
             err |-> "nil"]
        ELSE IF attr.vkind = "bool" THEN
            [buf |-> buf \o <<" ">> \o EscapeString(k), err |-> "nil"]
        ELSE [buf |-> buf, err |-> "ErrBadType"]

\* A bug to test the claims against: the key written without html.EscapeString.
renderAttrRawKey(attr, buf) ==
    LET k == TrimSpace(attr.key)
    IN  IF k = <<>> THEN [buf |-> buf, err |-> "ErrEmptyKey"]
        ELSE IF attr.vkind = "nil" THEN [buf |-> buf, err |-> "ErrNilValue"]
        ELSE IF attr.vkind = "string" THEN
            [buf |-> buf \o <<" ">> \o k \o <<"=", "\"">>
                         \o ReplaceQuotes(attr.str) \o <<"\"">>,
             err |-> "nil"]
        ELSE IF attr.vkind = "bool" THEN
            [buf |-> IF attr.bool THEN buf \o <<" ">> \o k ELSE buf, err |-> "nil"]
        ELSE [buf |-> buf, err |-> "ErrBadType"]

\* The body of the loop of renderAttrs, for one attribute.
renderAttr(attr, buf) ==
    LET k == TrimSpace(attr.key)
    IN  IF k = <<>> THEN [buf |-> buf, err |-> "ErrEmptyKey"]
        ELSE IF attr.vkind = "nil" THEN [buf |-> buf, err |-> "ErrNilValue"]
        ELSE IF attr.vkind = "string" THEN
            [buf |-> buf \o <<" ">> \o EscapeString(k) \o <<"=", "\"">>
                         \o ReplaceQuotes(attr.str) \o <<"\"">>,
             err |-> "nil"]
        ELSE IF attr.vkind = "bool" THEN
            [buf |-> IF attr.bool THEN buf \o <<" ">> \o EscapeString(k) ELSE buf,
             err |-> "nil"]
        ELSE [buf |-> buf, err |-> "ErrBadType"]

\* A bug to test the claims against: the loop goes on after a malformed
\* attribute and reports the first error at its end.
RECURSIVE renderAttrsKeepsGoing(_, _)
renderAttrsKeepsGoing(attrs, buf) ==
    IF attrs = <<>> THEN [buf |-> buf, err |-> "nil"]
    ELSE LET r == renderAttr(Head(attrs), buf)
             t == renderAttrsKeepsGoing(Tail(attrs), r.buf)
         IN  [buf |-> t.buf, err |-> IF r.err # "nil" THEN r.err ELSE t.err]

RECURSIVE renderAttrs(_, _)
renderAttrs(attrs, buf) ==
    IF attrs = <<>> THEN [buf |-> buf, err |-> "nil"]
    ELSE LET r == renderAttr(Head(attrs), buf)
         IN  IF r.err # "nil" THEN r ELSE renderAttrs(Tail(attrs), r.buf)

(***************************************************************************)
(* The sequential render: renderElement and renderChildren as the          *)
(* recursion of the source, threading the buffer, and Element.Render with  *)
(* a fresh (empty) scratch buffer.  Each returns the buffer and the error. *)
(***************************************************************************)
\* A bug to test the claims against: the test of the empty tag left out.
IsFragmentNever(me) == FALSE

\* A bug to test the claims against: an empty tag with attributes rendered as a tag.
IsFragmentWithoutAttrs(me) == me.Tag = <<>> /\ me.Attrs = <<>>

\* if me.Tag == "": the element is a fragment, rendered as its children only.
IsFragment(me) == me.Tag = <<>>

\* A bug to test the claims against: the test of IsVoid left out.
StopsNever(me) == FALSE

\* if me.IsVoid: renderElement returns after the opening tag.
StopsAtOpenTag(me) == me.IsVoid

RECURSIVE renderElement(_, _)
RECURSIVE renderChildren(_, _)
RECURSIVE ElementRenderInto(_, _)

renderElement(me, buf) ==
    IF IsFragment(me) THEN renderChildren(me.Children, buf)
    ELSE LET a == renderAttrs(me.Attrs, buf \o <<"<">> \o me.Tag)
         IN  IF a.err # "nil" THEN a
             ELSE IF StopsAtOpenTag(me) THEN [buf |-> a.buf \o <<">">>, err |-> "nil"]
             ELSE LET c == renderChildren(me.Children, a.buf \o <<">">>)
                  IN  IF c.err # "nil" THEN c
                      ELSE [buf |-> c.buf \o <<"<", "/">> \o me.Tag \o <<">">>,
                            err |-> "nil"]

renderChildren(children, buf) ==
    IF children = <<>> THEN [buf |-> buf, err |-> "nil"]
    ELSE LET c == Head(children)
             r == CASE c.kind = "Element"    -> renderElement(c, buf)
                    [] c.kind = "Text"       -> [buf |-> buf \o EscapeString(c.s), err |-> "nil"]
                    [] c.kind = "RawText"    -> [buf |-> buf \o c.s, err |-> "nil"]
                    [] c.kind = "ElementPtr" -> ElementRenderInto(Deref(c), buf)
                    [] OTHER                 -> [buf |-> buf \o c.s, err |-> c.err]
         IN  IF r.err # "nil" THEN r ELSE renderChildren(Tail(children), r.buf)

\* Element.Render(w) where w is a *bytes.Buffer holding wbuf: Write cannot fail.
ElementRenderInto(me, wbuf) ==
    LET r == renderElement(me, <<>>)
    IN  IF r.err # "nil" THEN [buf |-> wbuf, err |-> r.err]
        ELSE [buf |-> wbuf \o r.buf, err |-> "nil"]

\* Element.Render(w) on a destination whose Write fails iff wfail:
\* the Write calls made on w and the error returned.
ElementRender(me, wfail) ==
    LET r == renderElement(me, <<>>)
    IN  IF r.err # "nil" THEN [writes |-> <<>>, err |-> r.err]
        ELSE [writes |-> <<r.buf>>, err |-> IF wfail THEN "ErrWrite" ELSE "nil"]

(***************************************************************************)
(* Element.Render as a state machine.  A frame is one active call of       *)
(* Element.Render: me is its receiver, w its writer (0 is the destination  *)
(* of the top-level call, b > 0 the scratch buffer b of the calling        *)
(* frame), buf the scratch buffer it took from the pool (0 before Get),    *)
(* todo what renderElement has still to do, err the error it holds.        *)
(* The recursion of renderElement / renderChildren is unfolded into the    *)
(* work list todo: a node still to render, or a closing tag still to write.*)
(***************************************************************************)
NodeItem(n)    == [op |-> "node", n |-> n, tag |-> <<>>]
CloseItem(tag) == [op |-> "close", n |-> Text(<<>>), tag |-> tag]

Items(children) == [i \in 1 .. Len(children) |-> NodeItem(children[i])]

Frame(me, w) ==
    [me |-> me, w |-> w, buf |-> 0, todo |-> <<NodeItem(me)>>, pc |-> "get", err |-> "nil"]

Top(p) == stack[p][Len(stack[p])]

\* The buffers checked out by the frames of all goroutines.
Held == UNION {{stack[q][i].buf : i \in 1 .. Len(stack[q])} : q \in Procs} \ {0}

\* sync.Pool.New: a new bytes.Buffer (empty, grown to 1KB); its identity is fresh.
NewBuf == CHOOSE b \in 1 .. (Cardinality(DOMAIN bufs) + 1) : b \notin DOMAIN bufs

\* A bug to test the claims against: the closing tag written before the children.
ElementTodoCloseFirst(n, rest) == <<CloseItem(n.Tag)>> \o Items(n.Children) \o rest

\* What renderElement does after the opening tag of a container element:
\* renderChildren, then the closing tag.
ElementTodo(n, rest) == Items(n.Children) \o <<CloseItem(n.Tag)>> \o rest

\* One step of renderElement / renderChildren on the work item it, with the
\* scratch buffer holding buf and rest the work after it: the buffer and the
\* work list afterwards, the error raised, and the Element whose Render is
\* called with the scratch buffer as its writer (callee, empty if none).
ProcessItem(it, rest, buf) ==
    LET n == it.n
        R(b, todo, err, callee) == [buf |-> b, todo |-> todo, err |-> err, callee |-> callee]
    IN  IF it.op = "close" THEN R(buf \o <<"<", "/">> \o it.tag \o <<">">>, rest, "nil", <<>>)
        ELSE CASE n.kind = "Element" ->
                    IF IsFragment(n) THEN R(buf, Items(n.Children) \o rest, "nil", <<>>)
                    ELSE LET a == renderAttrs(n.Attrs, buf \o <<"<">> \o n.Tag)
                         IN  IF a.err # "nil" THEN R(a.buf, rest, a.err, <<>>)
                             ELSE IF StopsAtOpenTag(n) THEN R(a.buf \o <<">">>, rest, "nil", <<>>)
                             ELSE R(a.buf \o <<">">>, ElementTodo(n, rest), "nil", <<>>)
               [] n.kind = "Text"       -> R(buf \o EscapeString(n.s), rest, "nil", <<>>)
               [] n.kind = "RawText"    -> R(buf \o n.s, rest, "nil", <<>>)
               [] n.kind = "ElementPtr" -> R(buf, rest, "nil", <<Deref(n)>>)
               [] OTHER                 -> R(buf \o n.s, rest, n.err, <<>>)

SetTop(p, f) == [stack EXCEPT ![p][Len(stack[p])] = f]

\* A bug to test the claims against: Get hands out a buffer and leaves it in the pool.
PoolGetKeeps(pl, b) == pl

\* sync.Pool.Get removes the buffer it returns from the pool.
PoolGet(pl, b) == pl \ {b}

\* A bug to test the claims against: Put after the error return instead of deferred.
DeferredPutSkipsOnError(pl, f) == IF f.err # "nil" THEN pl ELSE pl \cup {f.buf}

\* The deferred bufferPool.Put(buf) of the frame f.
DeferredPut(pl, f) == pl \cup {f.buf}

\* A bug to test the claims against: the buffer put back without buf.Reset().
DeferredResetKeeps(data) == data

\* A bug to test the claims against: the buffer cut back to its first byte.
DeferredResetLeavesByte(data) == IF data = <<>> THEN <<>> ELSE <<Head(data)>>

\* The deferred buf.Reset(): what the buffer holds afterwards.
DeferredReset(data) == <<>>

\* A bug to test the claims against: the destination written byte by byte.
WriteDestPerByte(ws, data) == ws \o [i \in 1 .. Len(data) |-> <<data[i]>>]

\* w.Write(buf.Bytes()) on the destination: one Write call carrying data.
WriteDest(ws, data) == Append(ws, data)

\* A bug to test the claims against: the buffer flushed whatever renderElement returned.
ReachesFlushAlways(f) == f.pc = "render" /\ (f.todo = <<>> \/ f.err # "nil")

\* The frame f is at w.Write: renderElement has returned nil.
ReachesFlush(f) == f.pc = "render" /\ f.err = "nil" /\ f.todo = <<>>

\* A bug to test the claims against: the error of the final Write dropped.
FlushErrSwallowed(f, wfail) == f.err

\* _, err := w.Write(buf.Bytes()); return err: the error Element.Render returns
\* after the final Write, which is the error of that Write, as the writer gave it.
\* (A frame reaches the Write holding no error.)
FlushErr(f, wfail) == IF f.err # "nil" THEN f.err ELSE IF wfail THEN "ErrWrite" ELSE "nil"

(***************************************************************************)
(* Actions.                                                                *)
(***************************************************************************)
\* Goroutine p calls Render(w, tree) on a destination of its own.
Call(p, tree) ==
    /\ stack[p] = <<>>
    /\ ncalls < MaxCalls
    /\ stack' = [stack EXCEPT ![p] = <<Frame(tree, 0)>>]
    /\ call' = [call EXCEPT ![p] = [tree |-> tree, wfail |-> FALSE]]
    /\ writes' = [writes EXCEPT ![p] = <<>>]
    /\ ret' = [ret EXCEPT ![p] = "running"]
    /\ ncalls' = ncalls + 1
    /\ UNCHANGED <<fcalls, input, shared, pool, bufs>>

\* buf := bufferPool.Get(): a buffer resting in the pool, removed from it.
GetPooled(p, b) ==
    /\ stack[p] # <<>>
    /\ Top(p).pc = "get"
    /\ b \in pool
    /\ pool' = PoolGet(pool, b)
    /\ stack' = SetTop(p, [Top(p) EXCEPT !.buf = b, !.pc = "render"])
    /\ UNCHANGED <<fcalls, input, shared, bufs, call, writes, ret, ncalls>>

\* buf := bufferPool.Get() when the pool hands out nothing: New makes a buffer.
GetNew(p) ==
    /\ stack[p] # <<>>
    /\ Top(p).pc = "get"
    /\ bufs' = [b \in DOMAIN bufs \cup {NewBuf} |-> IF b = NewBuf THEN <<>> ELSE bufs[b]]
    /\ stack' = SetTop(p, [Top(p) EXCEPT !.buf = NewBuf, !.pc = "render"])
    /\ UNCHANGED <<fcalls, input, shared, pool, call, writes, ret, ncalls>>

\* One step of me.renderElement(buf).
Step(p) ==
    /\ stack[p] # <<>>
    /\ Top(p).pc = "render"
    /\ Top(p).err = "nil"
    /\ Top(p).todo # <<>>
    /\ LET f == Top(p)
           r == ProcessItem(Head(f.todo), Tail(f.todo), bufs[f.buf])
           g == [f EXCEPT !.todo = r.todo, !.err = r.err]
       IN  /\ bufs' = [bufs EXCEPT ![f.buf] = r.buf]
           /\ stack' = IF r.callee = <<>> THEN SetTop(p, g)
                       ELSE [stack EXCEPT ![p] = Append(SubSeq(stack[p], 1, Len(stack[p]) - 1), g)
                                                   \o <<Frame(r.callee[1], f.buf)>>]
    /\ UNCHANGED <<fcalls, input, shared, pool, call, writes, ret, ncalls>>

\* _, err := w.Write(buf.Bytes()) after renderElement returned nil.  The Write
\* of the destination fails or not (wfail); the Write of a bytes.Buffer cannot.
Flush(p, wfail) ==
    /\ stack[p] # <<>>
    /\ ReachesFlush(Top(p))
    /\ LET f == Top(p)
       IN  IF f.w = 0
           THEN /\ writes' = [writes EXCEPT ![p] = WriteDest(@, bufs[f.buf])]
                /\ stack' = SetTop(p, [f EXCEPT !.pc = "defer", !.err = FlushErr(f, wfail)])
                /\ call' = [call EXCEPT ![p].wfail = wfail]
                /\ bufs' = bufs
           ELSE /\ ~wfail
                /\ bufs' = [bufs EXCEPT ![f.w] = @ \o bufs[f.buf]]
                /\ stack' = SetTop(p, [f EXCEPT !.pc = "defer"])
                /\ UNCHANGED <<writes, call>>
    /\ UNCHANGED <<fcalls, input, shared, pool, ret, ncalls>>

\* The deferred function (buf.Reset(); bufferPool.Put(buf)) and the return of
\* the error to the caller: the caller of a nested Render returns it at once.
Return(p) ==
    /\ stack[p] # <<>>
    /\ \/ Top(p).pc = "defer"
       \/ Top(p).pc = "render" /\ Top(p).err # "nil" /\ ~ReachesFlush(Top(p))
    /\ LET f    == Top(p)
           rest == SubSeq(stack[p], 1, Len(stack[p]) - 1)
       IN  /\ bufs' = [bufs EXCEPT ![f.buf] = DeferredReset(@)]
           /\ pool' = DeferredPut(pool, f)
           /\ IF rest = <<>>
              THEN /\ stack' = [stack EXCEPT ![p] = <<>>]
                   /\ ret' = [ret EXCEPT ![p] = f.err]
              ELSE /\ stack' = [stack EXCEPT ![p] =
                                  [rest EXCEPT ![Len(rest)].err = f.err]]
                   /\ UNCHANGED ret
    /\ UNCHANGED <<fcalls, input, shared, call, writes, ncalls>>

\* The garbage collector drops a buffer resting in the pool.
Drop(b) ==
    /\ b \in pool
    /\ b \notin Held
    /\ pool' = pool \ {b}
    /\ bufs' = [c \in DOMAIN bufs \ {b} |-> bufs[c]]
    /\ UNCHANGED <<fcalls, input, shared, stack, call, writes, ret, ncalls>>

(***************************************************************************)
(* Inputs.                                                                 *)
(***************************************************************************)
Div == <<"d", "i", "v">>
P   == <<"p">>
Br  == <<"b", "r">>
Id  == <<"i", "d">>
Empty(kids) == Element(<<>>, FALSE, <<>>, kids)

\* The trees rendered concurrently: a well-formed tree, a tree whose failure
\* comes after well-formed nodes, and two trees with a nested Element.Render,
\* one succeeding and one failing.
ConcTrees ==
    { Element(Div, FALSE, <<StrAttr(Id, <<"x">>), BoolAttr(<<"h">>, TRUE)>>,
              <<Text(<<"a", "<">>), Element(P, FALSE, <<>>, <<>>)>>),
      Element(Div, FALSE, <<>>,
              <<Text(<<"o">>), Element(Br, TRUE, <<StrAttr(<<>>, <<"v">>)>>, <<>>)>>),
      Element(Div, FALSE, <<>>, <<ElementPtr(Element(Br, TRUE, <<>>, <<>>))>>),
      Empty(<<RawText(<<"r">>), ElementPtr(Element(P, FALSE, <<NilAttr(Id)>>, <<>>))>>) }

NoCall == [tree |-> Empty(<<>>), wfail |-> FALSE]

\* No constructor call is recorded: the tree was written as a literal.
NoInput == [ctor |-> "none", tag |-> <<>>, args |-> <<>>]

Init ==
    /\ shared \in ConcTrees
    /\ pool = {}
    /\ bufs = [b \in {} |-> <<>>]
    /\ stack = [p \in Procs |-> <<>>]
    /\ call = [p \in Procs |-> NoCall]
    /\ writes = [p \in Procs |-> <<>>]
    /\ ret = [p \in Procs |-> "idle"]
    /\ ncalls = 0
    /\ input = NoInput
    /\ fcalls = <<>>

Next ==
    \/ \E p \in Procs : Call(p, shared)
    \/ \E p \in Procs, b \in pool : GetPooled(p, b)
    \/ \E p \in Procs : GetNew(p)
    \/ \E p \in Procs : Step(p)
    \/ \E p \in Procs, wfail \in BOOLEAN : Flush(p, wfail)
    \/ \E p \in Procs : Return(p)
    \/ \E b \in pool : Drop(b)

Spec == Init /\ [][Next]_vars

(***************************************************************************)
(* The sequential specification: one goroutine renders twice through the   *)
(* same actions.  Its second call renders a tree drawn from a generated    *)
(* set; its first call leaves the pool as a program that rendered before   *)
(* finds it (a used buffer resting in it, or nothing).                     *)
(***************************************************************************)
SeqOfLen(S, n) == [1 .. n -> S]
SeqsUpTo(S, n) == UNION {SeqOfLen(S, k) : k \in 0 .. n}

AttrPool ==
    { StrAttr(Id, <<"x">>),                 \* id="x"
      StrAttr(<<"k">>, <<"\"", "<">>),      \* a value with a quote and a '<'
      StrAttr(<<"a", "<">>, <<"v">>),       \* a key that needs escaping
      BoolAttr(<<"h">>, TRUE),
      BoolAttr(<<"h">>, FALSE),
      BoolAttr(<<VT, "&", NBSP>>, TRUE),    \* a padded key that needs escaping
      StrAttr(<<>>, <<"v">>),               \* empty key
      BoolAttr(<<LineSeparator>>, FALSE),   \* white-space key, value false
      NilAttr(Id),                          \* nil value
      IntAttr(Id) }                         \* a value that is neither string nor bool

AttrLists == SeqsUpTo(AttrPool, MaxAttrs)

BadP == Element(P, FALSE, <<NilAttr(Id)>>, <<>>)

KidPool ==
    { Text(<<"a", "<">>),
      RawText(<<"<", "b", ">">>),
      Custom(<<"c">>, "nil"),
      Custom(<<"c">>, "ErrCustom"),
      Element(P, FALSE, <<>>, <<Text(<<"t">>)>>),
      Element(Br, TRUE, <<>>, <<>>),
      Empty(<<Text(<<"f">>), RawText(<<"g">>)>>),
      BadP,
      Element(<<>>, FALSE, <<StrAttr(<<>>, <<"v">>)>>, <<Text(<<"e">>)>>),
      Element(Br, TRUE, <<>>, <<BadP>>),
      ElementPtr(Element(P, FALSE, <<>>, <<Text(<<"n">>)>>)) }

KidLists == SeqsUpTo(KidPool, MaxKids)

\* Tag and IsVoid of a generated top-level element.
Shapes == { <<Div, FALSE>>, <<<<>>, FALSE>>, <<Br, TRUE>>, <<<<>>, TRUE>> }

SeqTrees ==
    { Element(sh[1], sh[2], as, <<Text(<<"t">>)>>) : sh \in Shapes, as \in AttrLists }
        \cup { Element(sh[1], sh[2], <<>>, ks) : sh \in Shapes, ks \in KidLists }

SeqInit ==
    /\ shared = Empty(<<>>)
    /\ pool = {}
    /\ bufs = [b \in {} |-> <<>>]
    /\ stack = [p \in Procs |-> <<>>]
    /\ call = [p \in Procs |-> NoCall]
    /\ writes = [p \in Procs |-> <<>>]
    /\ ret = [p \in Procs |-> "idle"]
    /\ ncalls = 0
    /\ input = NoInput
    /\ fcalls = <<>>

\* The next call of the sequential program.
SeqCall ==
    /\ stack[1] = <<>>
    /\ ncalls < MaxCalls
    /\ \/ ncalls = 0 /\ \E tree \in ConcTrees : Call(1, tree)
       \/ ncalls = 1 /\ \E tree \in SeqTrees : Call(1, tree)

SeqNext ==
    \/ SeqCall
    \/ \E b \in pool : GetPooled(1, b)
    \/ GetNew(1)
    \/ Step(1)
    \/ \E wfail \in BOOLEAN : Flush(1, wfail)
    \/ Return(1)
    \/ \E b \in pool : Drop(b)

SeqSpec == SeqInit /\ [][SeqNext]_vars

(***************************************************************************)
(* Construction.  A constructor call takes arguments of any type; an       *)
(* argument is modelled by its dynamic type (akind) and its value:         *)
(*   "KV"       a KV map: a set of attributes with pairwise different keys *)
(*   "Node"     a value implementing Node                                  *)
(*   "string"   a string s                                                 *)
(*   "Stringer" a fmt.Stringer that is not a Node; s is its String()       *)
(*   "int", "bool", "nil"  an int n, a bool b, the nil interface value     *)
(* The range over a Go map visits its entries in an order the language     *)
(* leaves open, so the constructors are set-valued: the set of elements    *)
(* the call can return.                                                    *)
(***************************************************************************)
MkArg(akind, kv, s, n, b, node) ==
    [akind |-> akind, kv |-> kv, s |-> s, n |-> n, b |-> b, node |-> node]

KVArg(kv)      == MkArg("KV", kv, <<>>, 0, FALSE, Text(<<>>))
NodeArg(node)  == MkArg("Node", {}, <<>>, 0, FALSE, node)
StrArg(s)      == MkArg("string", {}, s, 0, FALSE, Text(<<>>))
StringerArg(s) == MkArg("Stringer", {}, s, 0, FALSE, Text(<<>>))
IntArg(n)      == MkArg("int", {}, <<>>, n, FALSE, Text(<<>>))
BoolArg(b)     == MkArg("bool", {}, <<>>, 0, b, Text(<<>>))
NilArg         == MkArg("nil", {}, <<>>, 0, FALSE, Text(<<>>))

\* strconv: the decimal form of an integer.
Digit(d) == <<"0", "1", "2", "3", "4", "5", "6", "7", "8", "9">>[d + 1]

RECURSIVE Itoa(_)
Itoa(n) ==
    IF n < 0 THEN <<"-">> \o Itoa(0 - n)
    ELSE IF n < 10 THEN <<Digit(n)>>
    ELSE Itoa(n \div 10) \o <<Digit(n % 10)>>

\* fmt.Sprint(value) of one operand.
Sprint(arg) ==
    CASE arg.akind = "int"  -> Itoa(arg.n)
      [] arg.akind = "bool" -> IF arg.b THEN <<"t", "r", "u", "e">>
                               ELSE <<"f", "a", "l", "s", "e">>
      [] arg.akind = "nil"  -> <<"<", "n", "i", "l", ">">>
      [] OTHER              -> arg.s

\* for k, v := range kv: the orders in which the entries can be visited.
RangeOrders(kv) ==
    {o \in [1 .. Cardinality(kv) -> kv] : \A a \in kv : \E i \in DOMAIN o : o[i] = a}

\* A bug to test the claims against: the regrown slice made without copying
\* the attributes already there, which are left as zero values.
fillAttrsForgetsCopy(attrs, kv) ==
    IF attrs = <<>> \/ kv = {} THEN {attrs \o o : o \in RangeOrders(kv)}
    ELSE {[i \in 1 .. Len(attrs) |-> NilAttr(<<>>)] \o o : o \in RangeOrders(kv)}

\* fillAttrsWithKV: the attribute slices it can return.
fillAttrsWithKV(attrs, kv) == {attrs \o o : o \in RangeOrders(kv)}

\* A bug to test the claims against: every argument stringified, Nodes too.
newElemArgSprintsNodes(e, arg) ==
    CASE arg.akind = "KV" ->
            {[e EXCEPT !.Attrs = a] : a \in fillAttrsWithKV(e.Attrs, arg.kv)}
      [] arg.akind = "Node" -> {[e EXCEPT !.Children = Append(@, Text(arg.node.s))]}
      [] arg.akind \in {"string", "Stringer"} ->
            {[e EXCEPT !.Children = Append(@, Text(arg.s))]}
      [] OTHER -> {[e EXCEPT !.Children = Append(@, Text(Sprint(arg)))]}

\* A bug to test the claims against: the case KV missing from the type switch.
newElemArgKVAsChild(e, arg) ==
    CASE arg.akind = "Node" -> {[e EXCEPT !.Children = Append(@, arg.node)]}
      [] arg.akind \in {"string", "Stringer"} ->
            {[e EXCEPT !.Children = Append(@, Text(arg.s))]}
      [] OTHER -> {[e EXCEPT !.Children = Append(@, Text(Sprint(arg)))]}

\* A bug to test the claims against: nil arguments filtered out.
newElemArgDropsNil(e, arg) ==
    CASE arg.akind = "KV" ->
            {[e EXCEPT !.Attrs = a] : a \in fillAttrsWithKV(e.Attrs, arg.kv)}
      [] arg.akind = "Node" -> {[e EXCEPT !.Children = Append(@, arg.node)]}
      [] arg.akind \in {"string", "Stringer"} ->
            {[e EXCEPT !.Children = Append(@, Text(arg.s))]}
      [] arg.akind = "nil" -> {e}
      [] OTHER -> {[e EXCEPT !.Children = Append(@, Text(Sprint(arg)))]}

\* The body of the loop of newElem: the type switch on one argument.
newElemArg(e, arg) ==
    CASE arg.akind = "KV" ->
            {[e EXCEPT !.Attrs = a] : a \in fillAttrsWithKV(e.Attrs, arg.kv)}
      [] arg.akind = "Node" -> {[e EXCEPT !.Children = Append(@, arg.node)]}
      [] arg.akind \in {"string", "Stringer"} ->
            {[e EXCEPT !.Children = Append(@, Text(arg.s))]}
      [] OTHER -> {[e EXCEPT !.Children = Append(@, Text(Sprint(arg)))]}

RECURSIVE newElemArgs(_, _)
newElemArgs(e, args) ==
    IF args = <<>> THEN {e}
    ELSE UNION {newElemArgs(e2, Tail(args)) : e2 \in newElemArg(e, Head(args))}

newElem(tag, args) == newElemArgs(Element(tag, FALSE, <<>>, <<>>), args)

RECURSIVE newVoidElemArgs(_, _)
newVoidElemArgs(e, kvs) ==
    IF kvs = <<>> THEN {e}
    ELSE UNION {newVoidElemArgs([e EXCEPT !.Attrs = a], Tail(kvs)) :
                    a \in fillAttrsWithKV(e.Attrs, Head(kvs).kv)}

newVoidElem(tag, attrs) == newVoidElemArgs(Element(tag, TRUE, <<>>, <<>>), attrs)

(***************************************************************************)
(* The helpers If, Repeat and MapSlice.  A function argument is a closure: *)
(* what it returns can depend on the item it is given and on how often it  *)
(* has been called.  Repeat and MapSlice give the node they return and the *)
(* calls they made to the function, each call recorded as the item passed  *)
(* (the empty string for Repeat, whose function takes no argument).        *)
(***************************************************************************)
FnArg(fkind, s)  == [akind |-> "func", fkind |-> fkind, s |-> s]
SliceArg(items)  == [akind |-> "slice", items |-> items]

\* The node the function f returns on its k-th call, given item:
\*   "const" always <p>s</p> for its own s      "item" <p>item</p>
\*   "nth"   the Text of k (a counting closure)  "raw"  RawText(item)
\*   "bad"   an element whose render fails
FnApply(f, k, item) ==
    CASE f.fkind = "const" -> Element(P, FALSE, <<>>, <<Text(f.s)>>)
      [] f.fkind = "item"  -> Element(P, FALSE, <<>>, <<Text(item)>>)
      [] f.fkind = "nth"   -> Text(Itoa(k))
      [] f.fkind = "raw"   -> RawText(item)
      [] OTHER             -> Element(P, FALSE, <<NilAttr(Id)>>, <<>>)

\* A bug to test the claims against: the given node returned whatever the condition.
IfIgnoresCondition(condition, result) == result

\* If: the node itself, or Empty().
If(condition, result) == IF condition THEN result ELSE Empty(<<>>)

\* A bug to test the claims against: f called once and its result repeated.
RepeatCached(n, f) ==
    IF n <= 0 THEN [node |-> Empty(<<>>), calls |-> <<>>]
    ELSE [node |-> Empty([i \in 1 .. n |-> FnApply(f, 1, <<>>)]), calls |-> <<<<>>>>]

\* Repeat: result := newElem(""); for range n { append(result.Children, f()) }.
\* The loop runs n times, and not at all for n <= 0.
Repeat(n, f) ==
    LET loop[i \in Nat] ==
            IF i = 0 THEN [node |-> Empty(<<>>), calls |-> <<>>]
            ELSE LET r == loop[i - 1]
                     k == Len(r.calls) + 1
                 IN  [node  |-> [r.node EXCEPT !.Children = Append(@, FnApply(f, k, <<>>))],
                      calls |-> Append(r.calls, <<>>)]
    IN  loop[IF n < 0 THEN 0 ELSE n]

\* A bug to test the claims against: the slice walked from its end.
MapSliceReversed(items, f) ==
    [node  |-> Empty([i \in 1 .. Len(items) |-> FnApply(f, i, items[Len(items) + 1 - i])]),
     calls |-> [i \in 1 .. Len(items) |-> items[Len(items) + 1 - i]]]

\* MapSlice: result := newElem(""); for _, item := range input
\* { append(result.Children, f(item)) }.
MapSlice(items, f) ==
    LET loop[i \in Nat] ==
            IF i = 0 THEN [node |-> Empty(<<>>), calls |-> <<>>]
            ELSE LET r == loop[i - 1]
                     k == Len(r.calls) + 1
                 IN  [node  |-> [r.node EXCEPT !.Children = Append(@, FnApply(f, k, items[i]))],
                      calls |-> Append(r.calls, items[i])]
    IN  loop[Len(items)]

\* The helper's node as the program uses it: rendered on its own (no tag),
\* or as the middle child of tag("a", node, "b").
Wrap(tag, node) ==
    IF tag = <<>> THEN {node}
    ELSE newElem(tag, <<StrArg(<<"a">>), NodeArg(node), StrArg(<<"b">>)>>)

\* The nodes a constructor call (or a conversion Text(s), RawText(s)) can return.
Construct(in) ==
    CASE in.ctor = "Text"        -> {Text(in.args[1].s)}
      [] in.ctor = "RawText"     -> {RawText(in.args[1].s)}
      [] in.ctor = "newVoidElem" -> newVoidElem(in.tag, in.args)
      [] in.ctor = "If"          -> Wrap(in.tag, If(in.args[1].b, in.args[2].node))
      [] in.ctor = "Repeat"      -> Wrap(in.tag, Repeat(in.args[1].n, in.args[2]).node)
      [] in.ctor = "MapSlice"    -> Wrap(in.tag, MapSlice(in.args[1].items, in.args[2]).node)
      [] OTHER                   -> newElem(in.tag, in.args)

\* The calls the constructor call makes to its function argument.
ConstructCalls(in) ==
    CASE in.ctor = "Repeat"   -> Repeat(in.args[1].n, in.args[2]).calls
      [] in.ctor = "MapSlice" -> MapSlice(in.args[1].items, in.args[2]).calls
      [] OTHER                -> <<>>

\* A bug to test the claims against: the payload of RawText escaped.
TextBytesAllEscaped(n) == EscapeString(n.s)

\* What Text.Render and RawText.Render hand to io.WriteString.
TextBytes(n) == IF n.kind = "Text" THEN EscapeString(n.s) ELSE n.s

(***************************************************************************)
(* The construction specification: one constructor call builds a node      *)
(* from arguments drawn from generated sets, and Render serializes it.     *)
(***************************************************************************)
MaxLen  == 2     \* characters of a generated string
MaxArgs == 2     \* arguments of a generated constructor call
MaxRepeat == 2   \* the count given to Repeat, the length of a slice given to MapSlice

\* The characters of generated strings: those escaping replaces, those that
\* make up entities, white space, a plain letter.
Alphabet == {"&", "<", ">", "'", "\"", ";", "a", " ", "\n"}

Script      == <<"<", "s", "c", "r", "i", "p", "t", ">">>
EntityLt    == <<"&", "l", "t", ";">>
EntityAmp2  == <<"&", "a", "m", "p", ";", "a", "m", "p", ";">>
NameIsAhmad == <<"n", "a", "m", "e", " ", "i", "s", " ", "\"", "A", "h", "m", "a", "d", "\"">>
XssKey      == <<"\"", ">", " ", "<", "s", "c", "r", "i", "p", "t", ">", "a", "l", "e", "r",
                 "t", "(", "1", ")", "<", "/", "s", "c", "r", "i", "p", "t", ">">>
Title       == <<"t", "i", "t", "l", "e">>
DataValue   == <<"d", "a", "t", "a", "-", "v", "a", "l", "u", "e">>
Class       == <<"c", "l", "a", "s", "s">>
Container   == <<"c", "o", "n", "t", "a", "i", "n", "e", "r">>
Main        == <<"m", "a", "i", "n">>
Content     == <<"C", "o", "n", "t", "e", "n", "t">>
Hidden      == <<"h", "i", "d", "d", "e", "n">>
Disabled    == <<"d", "i", "s", "a", "b", "l", "e", "d">>
CountColon  == <<"C", "o", "u", "n", "t", ":", " ">>
ActiveColon == <<" ", "A", "c", "t", "i", "v", "e", ":", " ">>

Strs == SeqsUpTo(Alphabet, MaxLen) \cup {Script, EntityLt, EntityAmp2, NameIsAhmad, XssKey}

In(ctor, tag, args) == [ctor |-> ctor, tag |-> tag, args |-> args]

\* KV{"class": "container", "id": "main"} and
\* KV{"class": "container", "hidden": true, "disabled": false}
KVClassId     == {StrAttr(Class, Container), StrAttr(Id, Main)}
KVClassHidden == {StrAttr(Class, Container), BoolAttr(Hidden, TRUE), BoolAttr(Disabled, FALSE)}

ArgPool ==
    { StrArg(<<"a", "<">>),
      StringerArg(<<"s", "&">>),
      IntArg(42),
      IntArg(0 - 7),
      BoolArg(TRUE),
      NilArg,
      NodeArg(Text(<<"t", "<">>)),
      NodeArg(RawText(<<"<", "b", ">">>)),
      NodeArg(Element(P, FALSE, <<>>, <<Text(<<"e">>)>>)),
      NodeArg(Custom(<<"<", "c">>, "nil")),
      KVArg({StrAttr(Id, <<"x">>)}),
      KVArg({StrAttr(Id, <<"x">>), BoolAttr(<<"h">>, TRUE)}),
      KVArg({NilAttr(Id), StrAttr(<<VT>>, <<"v">>)}) }

\* The function arguments and the slices given to the helpers.
Fns == {FnArg("const", <<"c">>), FnArg("item", <<>>), FnArg("nth", <<>>),
        FnArg("raw", <<>>), FnArg("bad", <<>>)}

Slices == SeqsUpTo({<<"x">>, <<"<", "y">>}, MaxRepeat)

\* The nodes given to If.
IfNodes ==
    { Element(Div, FALSE, <<>>, <<Text(Content)>>),
      Text(<<"t", "<">>),
      RawText(<<"<", "b", ">">>),
      Element(Br, TRUE, <<>>, <<>>),
      Element(P, FALSE, <<NilAttr(Id)>>, <<>>) }

HelperInputs ==
    {In("If", tag, <<BoolArg(c), NodeArg(n)>>) :
        tag \in {<<>>, Div}, c \in BOOLEAN, n \in IfNodes}
        \cup {In("Repeat", tag, <<IntArg(n), f>>) :
                 tag \in {<<>>, Div}, n \in (0 - 1) .. MaxRepeat, f \in Fns}
        \cup {In("MapSlice", tag, <<SliceArg(items), f>>) :
                 tag \in {<<>>, Div}, items \in Slices, f \in Fns}

BuildInputs ==
    HelperInputs \cup
    {In("Text", <<>>, <<StrArg(s)>>) : s \in Strs}
        \cup {In("RawText", <<>>, <<StrArg(s)>>) : s \in Strs}
        \cup {In("Div", Div, <<StrArg(s)>>) : s \in Strs}
        \cup {In("Div", Div, <<NodeArg(RawText(s))>>) : s \in Strs}
        \cup {In("Div", Div, <<KVArg({StrAttr(Title, s)})>>) : s \in Strs}
        \cup {In("Div", Div, <<KVArg({StrAttr(DataValue, Script)})>>)}
        \cup {In("Div", Div, <<KVArg({StrAttr(s, <<"v">>)})>>) : s \in Strs}
        \cup {In("Div", Div, <<KVArg({BoolAttr(s, TRUE)})>>) : s \in Strs}
        \cup {In(c[1], c[2], args) : c \in {<<"Div", Div>>, <<"Empty", <<>>>>},
                                     args \in SeqsUpTo(ArgPool, MaxArgs)}
        \cup {In("Div", Div, <<StrArg(CountColon), IntArg(42), StrArg(ActiveColon), BoolArg(TRUE)>>),
              In("Div", Div, <<KVArg(KVClassId), StrArg(Content)>>),
              In("Div", Div, <<KVArg(KVClassHidden)>>),
              In("Div", Div, <<KVArg({StrAttr(Id, <<"x">>)}), KVArg(KVClassId), KVArg({BoolAttr(<<"h">>, TRUE)})>>),
              In("Div", Div, <<StrArg(<<"a">>), KVArg({StrAttr(Id, <<"x">>)}), StrArg(<<"b">>)>>),
              In("Div", Div, <<KVArg({StrAttr(Id, <<"x">>)}), StrArg(<<"a">>), StrArg(<<"b">>)>>),
              In("Empty", <<>>, <<KVArg({IntAttr(Id)}), StrArg(<<"a", "<">>),
                                  NodeArg(Element(P, FALSE, <<NilAttr(Id)>>, <<>>))>>),
              In("Empty", <<>>, <<StrArg(<<"a">>), KVArg({StrAttr(<<>>, <<"v">>)}),
                                  NodeArg(RawText(<<"<", "b", ">">>))>>),
              In("newVoidElem", Br, <<KVArg(KVClassId)>>),
              In("newVoidElem", Br, <<KVArg({StrAttr(Id, <<"x">>)}), KVArg(KVClassHidden)>>)}

\* The program has rendered before: a buffer rests in the pool, reset.
BuildInit ==
    /\ shared = Empty(<<>>)
    /\ pool = {1}
    /\ bufs = [b \in {1} |-> <<>>]
    /\ stack = [p \in Procs |-> <<>>]
    /\ call = [p \in Procs |-> NoCall]
    /\ writes = [p \in Procs |-> <<>>]
    /\ ret = [p \in Procs |-> "idle"]
    /\ ncalls = 0
    /\ input = NoInput
    /\ fcalls = <<>>

\* node := Div(args...): the program builds the node it will render.
Build ==
    /\ input = NoInput
    /\ \E in \in BuildInputs :
        /\ input' = in
        /\ fcalls' = ConstructCalls(in)
        /\ shared' \in Construct(in)
    /\ UNCHANGED <<pool, bufs, stack, call, writes, ret, ncalls>>

\* Render(w, node) on the node built, when it is an Element.
RenderBuilt ==
    /\ input # NoInput
    /\ ncalls = 0
    /\ shared.kind = "Element"
    /\ Call(1, shared)

\* Render(w, node) on a Text or a RawText: one io.WriteString on the
\* destination, whose error is returned.
RenderText(p, wfail) ==
    /\ input # NoInput
    /\ ncalls = 0
    /\ shared.kind \in {"Text", "RawText"}
    /\ stack[p] = <<>>
    /\ call' = [call EXCEPT ![p] = [tree |-> shared, wfail |-> wfail]]
    /\ writes' = [writes EXCEPT ![p] = WriteDest(<<>>, TextBytes(shared))]
    /\ ret' = [ret EXCEPT ![p] = IF wfail THEN "ErrWrite" ELSE "nil"]
    /\ ncalls' = ncalls + 1
    /\ UNCHANGED <<fcalls, input, shared, pool, bufs, stack>>

BuildNext ==
    \/ Build
    \/ RenderBuilt
    \/ \E wfail \in BOOLEAN : RenderText(1, wfail)
    \/ \E b \in pool : GetPooled(1, b)
    \/ GetNew(1)
    \/ Step(1)
    \/ \E wfail \in BOOLEAN : Flush(1, wfail)
    \/ Return(1)
    \/ \E b \in pool : Drop(b)

BuildSpec == BuildInit /\ [][BuildNext]_vars

(***************************************************************************)
(* The re-rendering specification: the program builds one page from a      *)
(* constructor call that has a KV with several entries, then renders that  *)
(* page again and again, each time into a destination of its own, the next *)
(* render starting when the one before has returned.                       *)
(***************************************************************************)
PageInputs ==
    { In("Div", Div, <<KVArg(KVClassId)>>),
      In("Div", Div, <<KVArg(KVClassHidden), StrArg(<<"a", "<">>)>>),
      In("Div", Div, <<KVArg({NilAttr(Id), StrAttr(<<VT>>, <<"v">>)})>>),
      In("Div", Div, <<KVArg(KVClassId), NodeArg(Custom(<<"c">>, "ErrCustom"))>>),
      In("Div", Div, <<KVArg(KVClassId),
                       NodeArg(ElementPtr(Element(P, FALSE, <<>>, <<Text(<<"n">>)>>)))>>),
      In("Empty", <<>>, <<KVArg(KVClassId), NodeArg(Element(P, FALSE, <<>>, <<Text(<<"e">>)>>))>>),
      In("newVoidElem", Br, <<KVArg(KVClassId), KVArg(KVClassHidden)>>) }

\* page := Div(KV{...}, ...): the program builds the page once.
BuildPage ==
    /\ input = NoInput
    /\ \E in \in PageInputs :
        /\ input' = in
        /\ fcalls' = ConstructCalls(in)
        /\ shared' \in Construct(in)
    /\ UNCHANGED <<pool, bufs, stack, call, writes, ret, ncalls>>

\* One iteration of the loop: var buf bytes.Buffer; Render(&buf, page).  The
\* iteration p keeps its destination and its result.
RenderAgain(p) ==
    /\ input # NoInput
    /\ p = ncalls + 1
    /\ \A q \in Procs : stack[q] = <<>>
    /\ Call(p, shared)

RerenderNext ==
    \/ BuildPage
    \/ \E p \in Procs : RenderAgain(p)
    \/ \E p \in Procs, b \in pool : GetPooled(p, b)
    \/ \E p \in Procs : GetNew(p)
    \/ \E p \in Procs : Step(p)
    \/ \E p \in Procs, wfail \in BOOLEAN : Flush(p, wfail)
    \/ \E p \in Procs : Return(p)
    \/ \E b \in pool : Drop(b)

RerenderSpec == SeqInit /\ [][RerenderNext]_vars

(***************************************************************************)
(* Properties.                                                             *)
(***************************************************************************)
RenderErrs == {"ErrEmptyKey", "ErrNilValue", "ErrBadType", "ErrCustom"}

\* The top-level call of goroutine p has returned.
Done(p) == ret[p] \notin {"idle", "running"}

\* The bytes the one Write of a finished, successful call delivered.
Out(p) == writes[p][1]

FrameIds == UNION {{<<p, i>> : i \in 1 .. Len(stack[p])} : p \in Procs}
FrameAt(x) == stack[x[1]][x[2]]

\* C1: the destination never receives more than one Write call from a Render
\* call, and a Render of a top-level Element that returned nil made exactly one
\* Write call, which carried the complete serialization of the tree.
C1_OneWrite ==
    \A p \in Procs :
        /\ Len(writes[p]) <= 1
        /\ ret[p] = "nil" => writes[p] = <<renderElement(call[p].tree, <<>>).buf>>

\* A fragment with two children, the second an element, rendered successfully
\* in one Write.
C1_Witness ==
    /\ ret[1] = "nil"
    /\ call[1].tree.Tag = <<>>
    /\ Len(call[1].tree.Children) = 2
    /\ call[1].tree.Children[2].kind = "Element"
    /\ Len(writes[1]) = 1
    /\ Len(Out(1)) > 5

\* C2: when the render of a top-level Element fails on a malformed attribute
\* or a failing child, its destination has received no Write call, while the
\* failing call is still running and after it has returned.
C2_NoWriteOnFailure ==
    \A p \in Procs :
        (\/ ret[p] \in RenderErrs
         \/ stack[p] # <<>> /\ stack[p][1].err \in RenderErrs)
            => writes[p] = <<>>

\* A render that failed on the second child, after a well-formed Text child
\* and the opening tag were serialized.
C2_Witness ==
    /\ ret[1] = "ErrNilValue"
    /\ call[1].tree.Tag = Div
    /\ Len(call[1].tree.Children) = 2
    /\ call[1].tree.Children[1].kind = "Text"
    /\ writes[1] = <<>>

\* C3: the step by which an Element.Render call returns puts the buffer the
\* call took back into the pool, empty, whatever error it returns; and once
\* every call has returned every buffer is in the pool.
C3_Step ==
    \A p \in Procs :
        Len(stack'[p]) < Len(stack[p]) =>
            LET b == Top(p).buf
            IN  /\ b \in pool'
                /\ bufs'[b] = <<>>
                /\ (\A q \in Procs : stack'[q] = <<>>) => DOMAIN bufs' \subseteq pool'

C3_PutBack == [][C3_Step]_vars

\* One call returned a write error, another returned nil, nothing is running
\* and both buffers rest in the pool, empty.
C3_Witness ==
    /\ \A p \in Procs : stack[p] = <<>>
    /\ ret[1] = "ErrWrite"
    /\ ret[2] = "nil"
    /\ Cardinality(pool) >= 2
    /\ \A b \in pool : bufs[b] = <<>>

\* C4: every Render call running concurrently with others on the shared tree
\* delivers to its destination exactly the Write calls, and returns the
\* error, of a sequential render of that tree.
C4_SameAsSequential ==
    \A p \in Procs :
        /\ writes[p] # <<>> => writes[p] = <<renderElement(shared, <<>>).buf>>
        /\ Done(p) => LET r == ElementRender(shared, call[p].wfail)
                      IN  writes[p] = r.writes /\ ret[p] = r.err

\* Two calls overlap: both have flushed and neither has returned.
C4_Witness ==
    /\ \A p \in {1, 2} :
        /\ Len(stack[p]) = 1
        /\ Top(p).pc = "defer"
        /\ Len(writes[p]) = 1
        /\ Len(Out(p)) > 5

\* C5: no buffer is held by two Element.Render frames at once, of the same or
\* of different goroutines, no held buffer rests in the pool, and a frame
\* writes only to its own buffer and to its writer, which is its destination
\* or the buffer of the frame that called it.
C5_Exclusive ==
    /\ \A x, y \in FrameIds :
        (x # y /\ FrameAt(x).buf # 0) => FrameAt(x).buf # FrameAt(y).buf
    /\ Held \cap pool = {}
    /\ \A x \in FrameIds :
        FrameAt(x).w = IF x[2] = 1 THEN 0 ELSE stack[x[1]][x[2] - 1].buf

\* A nested call and a concurrent call hold three buffers at once.
C5_Witness ==
    /\ Len(stack[1]) = 2
    /\ stack[1][2].buf # 0
    /\ stack[2] # <<>>
    /\ Top(2).buf # 0

\* The rendering of one child on its own, and of a list of children one by one.
NodeBytes(c) == renderChildren(<<c>>, <<>>).buf
KidsBytes(children) == Concat([i \in 1 .. Len(children) |-> NodeBytes(children[i])])

\* An attribute key as renderAttrs writes it: trimmed, then escaped.
KeyBytes(k) == EscapeString(TrimSpace(k))

\* C6: a successful render of an Element with a non-empty tag that is not void
\* is '<' tag attributes '>', the renderings of its children in their stored
\* order, '</' tag '>'; Div() gives <div></div> and a Div with a text and a P
\* child gives <div>text<p>...</p></div>.
C6_Container ==
    \A p \in Procs :
        LET t == call[p].tree
        IN  (ret[p] = "nil" /\ t.Tag # <<>> /\ ~t.IsVoid) =>
                /\ Out(p) = <<"<">> \o t.Tag \o renderAttrs(t.Attrs, <<>>).buf \o <<">">>
                              \o KidsBytes(t.Children) \o <<"<", "/">> \o t.Tag \o <<">">>
                /\ t = Element(Div, FALSE, <<>>, <<>>) =>
                       Out(p) = <<"<", "d", "i", "v", ">", "<", "/", "d", "i", "v", ">">>

\* Div("a<", P("t")) rendered as <div>a&lt;<p>t</p></div>.
C6_Witness ==
    /\ ret[1] = "nil"
    /\ call[1].tree = Element(Div, FALSE, <<>>,
                              <<Text(<<"a", "<">>), Element(P, FALSE, <<>>, <<Text(<<"t">>)>>)>>)
    /\ Out(1) = <<"<", "d", "i", "v", ">", "a", "&", "l", "t", ";",
                  "<", "p", ">", "t", "<", "/", "p", ">", "<", "/", "d", "i", "v", ">">>

\* The children of n with every empty-tag Element child replaced by its children.
Splice(n) ==
    [n EXCEPT !.Children =
        Concat([i \in 1 .. Len(n.Children) |->
                    IF n.Children[i].kind = "Element" /\ n.Children[i].Tag = <<>>
                    THEN n.Children[i].Children ELSE <<n.Children[i]>>])]

\* C7: an Element with an empty tag renders as the concatenation of the
\* renderings of its children, with nothing around them (Empty() as the empty
\* string), and an element renders as it does with each empty-tag child
\* replaced by that child's children.
C7_Fragment ==
    \A p \in Procs :
        LET t == call[p].tree
        IN  /\ (ret[p] = "nil" /\ t.Tag = <<>>) => Out(p) = KidsBytes(t.Children)
            /\ Done(p) => LET r == ElementRender(Splice(t), call[p].wfail)
                          IN  writes[p] = r.writes /\ ret[p] = r.err

\* Div(Empty("f", RawText("g"))) rendered as <div>fg</div>.
C7_Witness ==
    /\ ret[1] = "nil"
    /\ call[1].tree = Element(Div, FALSE, <<>>, <<Empty(<<Text(<<"f">>), RawText(<<"g">>)>>)>>)
    /\ Out(1) = <<"<", "d", "i", "v", ">", "f", "g", "<", "/", "d", "i", "v", ">">>

\* C8 as stated: any void element renders exactly like the same element
\* without its children, never emitting a child.
C8_AnyVoid ==
    \A p \in Procs :
        LET t == call[p].tree
        IN  (Done(p) /\ t.IsVoid) =>
                LET r == ElementRender([t EXCEPT !.Children = <<>>], call[p].wfail)
                IN  writes[p] = r.writes /\ ret[p] = r.err

\* C8 amended: a void element with a non-empty tag renders, and fails, exactly
\* as it does without its children, and a successful render of it is
\* '<' tag attributes '>' alone.
C8_Void ==
    \A p \in Procs :
        LET t == call[p].tree
        IN  (Done(p) /\ t.IsVoid /\ t.Tag # <<>>) =>
                /\ LET r == ElementRender([t EXCEPT !.Children = <<>>], call[p].wfail)
                   IN  writes[p] = r.writes /\ ret[p] = r.err
                /\ ret[p] = "nil" =>
                       Out(p) = <<"<">> \o t.Tag \o renderAttrs(t.Attrs, <<>>).buf \o <<">">>

\* A br holding a child whose Render fails rendered as <br>.
C8_Witness ==
    /\ ret[1] = "nil"
    /\ call[1].tree = Element(Br, TRUE, <<>>, <<Custom(<<"c">>, "ErrCustom")>>)
    /\ Out(1) = <<"<", "b", "r", ">">>

\* What one well-formed attribute contributes: a boolean true the space and
\* the key, a boolean false nothing, a string what renderAttr writes.
AttrBytes(a) ==
    IF a.vkind = "bool"
    THEN IF a.bool THEN <<" ">> \o KeyBytes(a.key) ELSE <<>>
    ELSE renderAttr(a, <<>>).buf

OpenTag(t) ==
    <<"<">> \o t.Tag \o Concat([i \in 1 .. Len(t.Attrs) |-> AttrBytes(t.Attrs[i])]) \o <<">">>

\* C9: in the opening tag of a successfully rendered element a boolean
\* attribute with value true is a space and the key (as written: trimmed and
\* escaped) with no '=' and no value, and one with value false is nothing:
\* {hidden: false} gives <div>, and {h: true, h: false} gives ' h' in either
\* order of the two.
C9_BoolAttrs ==
    \A p \in Procs :
        LET t == call[p].tree
        IN  (ret[p] = "nil" /\ t.Tag # <<>>) =>
                /\ SubSeq(Out(p), 1, Len(OpenTag(t))) = OpenTag(t)
                /\ t.Attrs = <<BoolAttr(<<"h">>, FALSE)>> =>
                       SubSeq(Out(p), 1, Len(t.Tag) + 2) = <<"<">> \o t.Tag \o <<">">>
                /\ t.Attrs \in {<<BoolAttr(<<"h">>, TRUE), BoolAttr(<<"h">>, FALSE)>>,
                                <<BoolAttr(<<"h">>, FALSE), BoolAttr(<<"h">>, TRUE)>>} =>
                       SubSeq(Out(p), 1, Len(t.Tag) + 4) = <<"<">> \o t.Tag \o <<" ", "h", ">">>

\* A div with a false and a true boolean attribute rendered as <div h>t</div>.
C9_Witness ==
    /\ ret[1] = "nil"
    /\ call[1].tree.Tag = Div
    /\ call[1].tree.Attrs = <<BoolAttr(<<"h">>, FALSE), BoolAttr(<<"h">>, TRUE)>>
    /\ Out(1) = <<"<", "d", "i", "v", " ", "h", ">", "t", "<", "/", "d", "i", "v", ">">>

\* Malformed: an empty or white-space key, a nil value, a value of another type.
Malformed(a) == TrimSpace(a.key) = <<>> \/ a.vkind \notin {"string", "bool"}

HasMalformed(n) == \E i \in 1 .. Len(n.Attrs) : Malformed(n.Attrs[i])

\* Some element of the tree n carries a malformed attribute.
RECURSIVE AnyMalformed(_)
AnyMalformed(n) ==
    /\ n.kind \in {"Element", "ElementPtr"}
    /\ \/ HasMalformed(n)
       \/ \E i \in 1 .. Len(n.Children) : AnyMalformed(n.Children[i])

\* Some element of the tree n that has a non-empty tag and is not below a void
\* element with a non-empty tag carries a malformed attribute.
RECURSIVE AnyMalformedTag(_)
AnyMalformedTag(n) ==
    /\ n.kind \in {"Element", "ElementPtr"}
    /\ IF n.Tag = <<>>
       THEN \E i \in 1 .. Len(n.Children) : AnyMalformedTag(n.Children[i])
       ELSE \/ HasMalformed(n)
            \/ ~n.IsVoid /\ \E i \in 1 .. Len(n.Children) : AnyMalformedTag(n.Children[i])

\* C10 as stated: a malformed attribute on any element of the tree makes
\* Render return an error.
C10_AnyElement ==
    \A p \in Procs : (Done(p) /\ AnyMalformed(call[p].tree)) => ret[p] # "nil"

\* C10 amended: a malformed attribute on an element that has a non-empty tag
\* and is not below a void element with a non-empty tag makes Render return a
\* render error, and nothing is written.
C10_Malformed ==
    \A p \in Procs :
        (Done(p) /\ AnyMalformedTag(call[p].tree)) =>
            ret[p] \in RenderErrs /\ writes[p] = <<>>

\* A div whose second attribute has an empty key: Render returned the error.
C10_Witness ==
    /\ ret[1] = "ErrEmptyKey"
    /\ call[1].tree.Tag = Div
    /\ call[1].tree.Attrs = <<StrAttr(Id, <<"x">>), StrAttr(<<>>, <<"v">>)>>

(***************************************************************************)
(* Properties of construction, escaping and re-rendering.                  *)
(***************************************************************************)
DivOpen  == <<"<", "d", "i", "v", ">">>
DivClose == <<"<", "/", "d", "i", "v", ">">>

\* The constructor call recorded was a container constructor given exactly
\* one argument, of dynamic type akind.
OneArg(ctor, akind) ==
    /\ input.ctor = ctor
    /\ Len(input.args) = 1
    /\ input.args[1].akind = akind

\* The five replacements of body text, as the contract lists them.
C11_Entity(c) ==
    CASE c = "&"  -> <<"&", "a", "m", "p", ";">>
      [] c = "<"  -> <<"&", "l", "t", ";">>
      [] c = ">"  -> <<"&", "g", "t", ";">>
      [] c = "'"  -> <<"&", "#", "3", "9", ";">>
      [] c = "\"" -> <<"&", "#", "3", "4", ";">>
      [] OTHER    -> <<c>>

C11_Escaped(s) == Concat([i \in 1 .. Len(s) |-> C11_Entity(s[i])])

\* C11: a successful render of Text(s) writes, and a successful render of
\* Div(s) for a string s holds between <div> and </div>, the characters of s
\* in order, each of & < > ' " replaced once by its entity and every other
\* character (white space included) as it is.
C11_TextEscaped ==
    ret[1] = "nil" =>
        /\ input.ctor = "Text" => writes[1] = <<C11_Escaped(input.args[1].s)>>
        /\ OneArg("Div", "string") =>
               Out(1) = DivOpen \o C11_Escaped(input.args[1].s) \o DivClose

\* Div("'\n") rendered as <div>&#39;\n</div>.
C11_Witness ==
    /\ ret[1] = "nil"
    /\ input = In("Div", Div, <<StrArg(<<"'", "\n">>)>>)
    /\ Out(1) = DivOpen \o <<"&", "#", "3", "9", ";", "\n">> \o DivClose

HasPrefix(s, pre) == Len(s) >= Len(pre) /\ SubSeq(s, 1, Len(pre)) = pre

\* Unescaping: each of the five entities decoded, from left to right.
RECURSIVE C12_Unescape(_)
C12_Unescape(s) ==
    IF s = <<>> THEN <<>>
    ELSE LET ents == {c \in {"&", "<", ">", "'", "\""} : HasPrefix(s, C11_Entity(c))}
         IN  IF ents = {} THEN <<Head(s)>> \o C12_Unescape(Tail(s))
             ELSE LET c == CHOOSE x \in ents : TRUE
                  IN  <<c>> \o C12_Unescape(SubSeq(s, Len(C11_Entity(c)) + 1, Len(s)))

\* C12: unescaping what a successful render of Text(s) wrote gives back s.
C12_RoundTrip ==
    (ret[1] = "nil" /\ input.ctor = "Text") =>
        /\ Len(writes[1]) = 1
        /\ C12_Unescape(Out(1)) = input.args[1].s

\* Text("&amp;amp;") rendered as &amp;amp;amp;
C12_Witness ==
    /\ ret[1] = "nil"
    /\ input = In("Text", <<>>, <<StrArg(EntityAmp2)>>)
    /\ Out(1) = <<"&", "a", "m", "p", ";", "a", "m", "p", ";", "a", "m", "p", ";">>

\* C13: a successful render of RawText(s) writes s as it is, a successful
\* render of Div(RawText(s)) is <div>, s as it is, </div>; Div(RawText("<script>"))
\* gives <div><script></div> and Div("<script>") gives <div>&lt;script&gt;</div>.
C13_Raw ==
    ret[1] = "nil" =>
        /\ input.ctor = "RawText" => writes[1] = <<input.args[1].s>>
        /\ (OneArg("Div", "Node") /\ input.args[1].node.kind = "RawText") =>
               Out(1) = DivOpen \o input.args[1].node.s \o DivClose
        /\ input = In("Div", Div, <<NodeArg(RawText(Script))>>) =>
               Out(1) = <<"<", "d", "i", "v", ">", "<", "s", "c", "r", "i", "p", "t", ">", "<",
                 "/", "d", "i", "v", ">">>
        /\ input = In("Div", Div, <<StrArg(Script)>>) =>
               Out(1) = <<"<", "d", "i", "v", ">", "&", "l", "t", ";", "s", "c", "r", "i", "p",
                 "t", "&", "g", "t", ";", "<", "/", "d", "i", "v", ">">>

\* Div(RawText("<script>")) rendered as <div><script></div>.
C13_Witness ==
    /\ ret[1] = "nil"
    /\ input = In("Div", Div, <<NodeArg(RawText(Script))>>)
    /\ Out(1) = DivOpen \o Script \o DivClose

\* An attribute value with every double quote replaced by &quot;.
C14_Quoted(v) ==
    Concat([i \in 1 .. Len(v) |->
                IF v[i] = "\"" THEN <<"&", "q", "u", "o", "t", ";">> ELSE <<v[i]>>])

\* The one attribute of the KV that is the one argument of the constructor call.
TheAttr == CHOOSE a \in input.args[1].kv : TRUE

OneAttr(vkind) ==
    /\ OneArg("Div", "KV")
    /\ Cardinality(input.args[1].kv) = 1
    /\ TheAttr.vkind = vkind

\* C14: a successful render of a Div with one string attribute, whose key
\* needs no escaping, is <div, a space, the key, =", the value with every
\* double quote replaced by &quot; and nothing else changed, ", ></div>.
C14_StringAttr ==
    (ret[1] = "nil" /\ OneAttr("string") /\ TheAttr.key \in {Title, DataValue}) =>
        /\ Out(1) = <<"<", "d", "i", "v", " ">> \o TheAttr.key \o <<"=", "\"">>
                      \o C14_Quoted(TheAttr.str) \o <<"\"", ">">> \o DivClose
        /\ TheAttr = StrAttr(DataValue, Script) =>
               Out(1) = <<"<", "d", "i", "v", " ", "d", "a", "t", "a", "-", "v", "a", "l", "u",
                 "e", "=", "\"", "<", "s", "c", "r", "i", "p", "t", ">", "\"", ">",
                 "<", "/", "d", "i", "v", ">">>

\* Div(KV{"title": `name is "Ahmad"`}) rendered with the quotes as &quot;.
C14_Witness ==
    /\ ret[1] = "nil"
    /\ input = In("Div", Div, <<KVArg({StrAttr(Title, NameIsAhmad)})>>)
    /\ Out(1) = <<"<", "d", "i", "v", " ", "t", "i", "t", "l", "e", "=", "\"", "n", "a",
                "m", "e", " ", "i", "s", " ", "&", "q", "u", "o", "t", ";", "A", "h",
                "m", "a", "d", "&", "q", "u", "o", "t", ";", "\"", ">", "<", "/", "d",
                "i", "v", ">">>

\* C15: in a successful render of a Div with one attribute, string-valued or
\* boolean true, the key is written escaped as body text is (after its
\* surrounding white space is removed), so that the key written holds no raw
\* < > ' or ", and no & other than the first character of an entity.
C15_KeyEscaped ==
    (ret[1] = "nil" /\ (OneAttr("string") \/ (OneAttr("bool") /\ TheAttr.bool))) =>
        LET key == C11_Escaped(TrimSpace(TheAttr.key))
            val == IF TheAttr.vkind = "bool" THEN <<>>
                   ELSE <<"=", "\"">> \o C14_Quoted(TheAttr.str) \o <<"\"">>
        IN  /\ Out(1) = <<"<", "d", "i", "v", " ">> \o key \o val \o <<">">> \o DivClose
            /\ \A i \in 1 .. Len(key) :
                /\ key[i] \notin {"<", ">", "'", "\""}
                /\ key[i] = "&" =>
                       \E c \in {"&", "<", ">", "'", "\""} :
                           HasPrefix(SubSeq(key, i, Len(key)), C11_Entity(c))

\* The boolean attribute whose key is `"> <script>alert(1)</script>` rendered.
C15_Witness ==
    /\ ret[1] = "nil"
    /\ input = In("Div", Div, <<KVArg({BoolAttr(XssKey, TRUE)})>>)
    /\ Out(1) = <<"<", "d", "i", "v", " ", "&", "#", "3", "4", ";", "&", "g", "t", ";",
                " ", "&", "l", "t", ";", "s", "c", "r", "i", "p", "t", "&", "g", "t",
                ";", "a", "l", "e", "r", "t", "(", "1", ")", "&", "l", "t", ";", "/",
                "s", "c", "r", "i", "p", "t", "&", "g", "t", ";", ">", "<", "/", "d",
                "i", "v", ">">>

\* C16: when the Write of the destination fails in the final flush of an
\* Element render, the destination has received exactly one Write call, and
\* the call returns the error of that Write.
C16_WriteError ==
    \A p \in Procs :
        call[p].wfail =>
            /\ Len(writes[p]) = 1
            /\ Done(p) => ret[p] = "ErrWrite"
            /\ stack[p] # <<>> => stack[p][1].err = "ErrWrite"

\* A div with two children whose flush failed: the error came back, after one Write.
C16_Witness ==
    /\ ret[1] = "ErrWrite"
    /\ call[1].wfail
    /\ call[1].tree.Tag = Div
    /\ Len(call[1].tree.Children) = 2
    /\ Len(writes[1]) = 1
    /\ Len(Out(1)) > 10

\* The error renderElement returned in the finished render p: what Render
\* returned, unless that was the error of the destination's Write.
RenderErr(p) == IF ret[p] \in RenderErrs THEN ret[p] ELSE "nil"

\* C17: once the page is built no step changes it: every render is called on
\* the page as the constructor left it, and after any number of renders,
\* failed ones included, it still is that page.  Any two finished renders of
\* it delivered the same Write calls with the same bytes and had the same
\* render error, and returned the same error when their destinations
\* behaved alike; this also for a page built from a KV with several entries,
\* whatever order the constructor's range over the map took.
C17_Step ==
    /\ input # NoInput => shared' = shared
    /\ \A p \in Procs : ret'[p] # "idle" => call'[p].tree = shared'
    /\ \A p, q \in Procs :
        (Done(p)' /\ Done(q)') =>
            /\ writes'[p] = writes'[q]
            /\ RenderErr(p)' = RenderErr(q)'
            /\ call'[p].wfail = call'[q].wfail => ret'[p] = ret'[q]

C17_NoMutation == [][C17_Step]_vars

\* Div(KV{"class": "container", "hidden": true, "disabled": false}, "a<")
\* was rendered twice, the second render through the buffer the first one
\* left in the pool; the range over the map had put hidden first, and both
\* renders wrote <div hidden class="container">a&lt;</div>.
C17_Witness ==
    /\ input = In("Div", Div, <<KVArg(KVClassHidden), StrArg(<<"a", "<">>)>>)
    /\ shared.Attrs[1] = BoolAttr(Hidden, TRUE)
    /\ ncalls = MaxCalls
    /\ \A p \in 1 .. MaxCalls : ret[p] = "nil"
    /\ \A p \in 1 .. MaxCalls :
          Out(p) = <<"<", "d", "i", "v", " ">> \o Hidden \o <<" ">> \o Class
                       \o <<"=", "\"">> \o Container \o <<"\"", ">", "a", "&", "l", "t", ";">> \o DivClose
    /\ Cardinality(DOMAIN bufs) = 1

\* The arguments of the recorded constructor call that are not KV maps.
ChildArgs == SelectSeq(input.args, LAMBDA a : a.akind # "KV")

\* The canonical text form of the numbers and booleans among the arguments.
C18_Canonical(arg) ==
    CASE arg = IntArg(42)     -> <<"4", "2">>
      [] arg = IntArg(0 - 7)  -> <<"-", "7">>
      [] arg = BoolArg(TRUE)  -> <<"t", "r", "u", "e">>
      [] arg = BoolArg(FALSE) -> <<"f", "a", "l", "s", "e">>

C18_Child(arg) ==
    CASE arg.akind = "Node" -> arg.node
      [] arg.akind \in {"string", "Stringer"} -> Text(arg.s)
      [] OTHER -> Text(C18_Canonical(arg))

\* C18: the children of an element built by a container constructor are, in
\* the order of the arguments that are not KV maps, the Node arguments as they
\* are, Text(s) for a string s, Text of String() for a Stringer, and Text of
\* the canonical text form for a number or a boolean; and
\* Div("Count: ", 42, " Active: ", true) renders <div>Count: 42 Active: true</div>.
C18_Coercion ==
    /\ (input.ctor \in {"Div", "Empty"} /\ \A i \in 1 .. Len(ChildArgs) : ChildArgs[i] # NilArg) =>
           shared.Children = [i \in 1 .. Len(ChildArgs) |-> C18_Child(ChildArgs[i])]
    /\ (ret[1] = "nil" /\ input = In("Div", Div, <<StrArg(CountColon), IntArg(42),
                                                    StrArg(ActiveColon), BoolArg(TRUE)>>)) =>
           Out(1) = <<"<", "d", "i", "v", ">", "C", "o", "u", "n", "t", ":", " ", "4", "2",
                 " ", "A", "c", "t", "i", "v", "e", ":", " ", "t", "r", "u", "e", "<",
                 "/", "d", "i", "v", ">">>

\* Div(RawText("<b>"), -7) rendered as <div><b>-7</div>.
C18_Witness ==
    /\ ret[1] = "nil"
    /\ input = In("Div", Div, <<NodeArg(RawText(<<"<", "b", ">">>)), IntArg(0 - 7)>>)
    /\ Out(1) = DivOpen \o <<"<", "b", ">", "-", "7">> \o DivClose

\* C19: every argument of a container constructor that is not a KV map adds
\* one child; a nil argument adds a Text child with a non-empty payload, and
\* a successful render of Div(nil) holds that payload, escaped, between
\* <div> and </div>.
C19_NilPlaceholder ==
    /\ input.ctor \in {"Div", "Empty"} =>
           /\ Len(shared.Children) = Len(ChildArgs)
           /\ \A i \in 1 .. Len(ChildArgs) :
                ChildArgs[i] = NilArg =>
                    shared.Children[i].kind = "Text" /\ shared.Children[i].s # <<>>
    /\ (ret[1] = "nil" /\ input = In("Div", Div, <<NilArg>>)) =>
           /\ Len(Out(1)) > Len(DivOpen \o DivClose)
           /\ Out(1) = DivOpen \o C11_Escaped(shared.Children[1].s) \o DivClose

\* Div(nil) rendered as <div>&lt;nil&gt;</div>.
C19_Witness ==
    /\ ret[1] = "nil"
    /\ input = In("Div", Div, <<NilArg>>)
    /\ Out(1) = <<"<", "d", "i", "v", ">", "&", "l", "t", ";", "n", "i", "l", "&", "g",
                "t", ";", "<", "/", "d", "i", "v", ">">>

\* C20 as stated: every successful render of
\* Div(KV{"class": "container", "id": "main"}, "Content") is
\* <div class="container" id="main">Content</div>, and every successful render
\* of Div(KV{"class": "container", "hidden": true, "disabled": false}) holds
\* class="container" hidden.
C20_DocOrder ==
    ret[1] = "nil" =>
        /\ input = In("Div", Div, <<KVArg(KVClassId), StrArg(Content)>>) =>
               Out(1) = <<"<", "d", "i", "v", " ", "c", "l", "a", "s", "s", "=", "\"", "c", "o",
                 "n", "t", "a", "i", "n", "e", "r", "\"", " ", "i", "d", "=", "\"",
                 "m", "a", "i", "n", "\"", ">", "C", "o", "n", "t", "e", "n", "t", "<",
                 "/", "d", "i", "v", ">">>
        /\ input = In("Div", Div, <<KVArg(KVClassHidden)>>) =>
               Out(1) = <<"<", "d", "i", "v", " ", "c", "l", "a", "s", "s", "=", "\"", "c", "o",
                 "n", "t", "a", "i", "n", "e", "r", "\"", " ", "h", "i", "d", "d", "e",
                 "n", ">", "<", "/", "d", "i", "v", ">">>

(***************************************************************************)
(* Properties of the helpers.                                              *)
(***************************************************************************)
\* The helper's node within the tree built: the tree itself, or the middle
\* child of the wrapping element.
HelperNode == IF input.tag = <<>> THEN shared ELSE shared.Children[2]

\* What a successful render of the tree built around the helper's node must
\* be, given the bytes the helper's node stands for.
Wrapped(bytes) ==
    IF input.tag = <<>> THEN bytes
    ELSE <<"<">> \o input.tag \o <<">", "a">> \o bytes \o <<"b", "<", "/">> \o input.tag \o <<">">>

\* The node is a fragment: an element with no tag and no attributes.
IsBareFragment(node) == node.kind = "Element" /\ node.Tag = <<>> /\ node.Attrs = <<>>

\* C21: Repeat(n, f) calls f n times (never for n <= 0), its node is a
\* fragment whose k-th child is what the k-th call of f returned, a
\* successful render is the concatenation of the renderings of those
\* children with nothing around them, and Repeat(0, f) rendered on its own
\* writes the empty string and fails only if that Write does.
C21_Repeat ==
    input.ctor = "Repeat" =>
        LET n   == input.args[1].n
            f   == input.args[2]
            cnt == IF n < 0 THEN 0 ELSE n
        IN  /\ Len(fcalls) = cnt
            /\ IsBareFragment(HelperNode)
            /\ HelperNode.Children = [k \in 1 .. cnt |-> FnApply(f, k, <<>>)]
            /\ ret[1] = "nil" => Out(1) = Wrapped(KidsBytes(HelperNode.Children))
            /\ (Done(1) /\ n = 0 /\ input.tag = <<>>) =>
                   /\ writes[1] = <<<<>>>>
                   /\ ret[1] = IF call[1].wfail THEN "ErrWrite" ELSE "nil"

\* Repeat(2, f) for a counting closure f rendered as 12.
C21_Witness ==
    /\ input = In("Repeat", <<>>, <<IntArg(2), FnArg("nth", <<>>)>>)
    /\ Len(fcalls) = 2
    /\ ret[1] = "nil"
    /\ Out(1) = <<"1", "2">>

\* C22: If(true, node) is node; If(false, node) is a fragment without
\* children, which rendered on its own writes the empty string and fails only
\* if that Write does, and which as a child adds no output and no error.
C22_If ==
    input.ctor = "If" =>
        LET c == input.args[1].b
            n == input.args[2].node
        IN  /\ c => HelperNode = n
            /\ ~c => IsBareFragment(HelperNode) /\ HelperNode.Children = <<>>
            /\ (~c /\ Done(1)) =>
                   /\ writes[1] = <<Wrapped(<<>>)>>
                   /\ ret[1] = IF call[1].wfail THEN "ErrWrite" ELSE "nil"

\* Div("a", If(false, node), "b"), for a node whose render fails, rendered
\* as <div>ab</div>.
C22_Witness ==
    /\ input = In("If", Div, <<BoolArg(FALSE), NodeArg(Element(P, FALSE, <<NilAttr(Id)>>, <<>>))>>)
    /\ ret[1] = "nil"
    /\ Out(1) = <<"<", "d", "i", "v", ">", "a", "b", "<", "/", "d", "i", "v", ">">>

\* C23: MapSlice(input, f) calls f once with each element of input, in slice
\* order, its node is a fragment whose k-th child is what f returned for the
\* k-th element, a successful render is the concatenation of the renderings
\* of those children with nothing around them, and for an empty slice the
\* node rendered on its own writes the empty string.
C23_MapSlice ==
    input.ctor = "MapSlice" =>
        LET items == input.args[1].items
            f     == input.args[2]
        IN  /\ fcalls = items
            /\ IsBareFragment(HelperNode)
            /\ HelperNode.Children = [k \in 1 .. Len(items) |-> FnApply(f, k, items[k])]
            /\ ret[1] = "nil" => Out(1) = Wrapped(KidsBytes(HelperNode.Children))
            /\ (Done(1) /\ items = <<>> /\ input.tag = <<>>) =>
                   /\ writes[1] = <<<<>>>>
                   /\ ret[1] = IF call[1].wfail THEN "ErrWrite" ELSE "nil"

\* MapSlice({"x", "<y"}, f) for f giving <p>item</p> rendered as
\* <p>x</p><p>&lt;y</p>.
C23_Witness ==
    /\ input = In("MapSlice", <<>>, <<SliceArg(<<<<"x">>, <<"<", "y">>>>), FnArg("item", <<>>)>>)
    /\ fcalls = <<<<"x">>, <<"<", "y">>>>
    /\ ret[1] = "nil"
    /\ Out(1) = <<"<", "p", ">", "x", "<", "/", "p", ">",
                  "<", "p", ">", "&", "l", "t", ";", "y", "<", "/", "p", ">">>

(***************************************************************************)
(* Properties of failure.                                                  *)
(***************************************************************************)
\* The tree n is made of Element (also behind a pointer), Text and RawText
\* nodes only, and every attribute in it is well formed.
RECURSIVE WellFormedPlain(_)
WellFormedPlain(n) ==
    \/ n.kind \in {"Text", "RawText"}
    \/ /\ n.kind \in {"Element", "ElementPtr"}
       /\ ~HasMalformed(n)
       /\ \A i \in 1 .. Len(n.Children) : WellFormedPlain(n.Children[i])

\* C24: the render of a tree made only of Element, Text and RawText nodes
\* whose attributes are all well formed never holds a render error, and
\* returns nil unless the Write of the destination failed, in which case it
\* returns the error of that Write.
C24_OnlyTwoReasons ==
    \A p \in Procs :
        WellFormedPlain(call[p].tree) =>
            /\ \A i \in 1 .. Len(stack[p]) : stack[p][i].err \notin RenderErrs
            /\ Done(p) => ret[p] = IF call[p].wfail THEN "ErrWrite" ELSE "nil"

\* A div holding a text that needs escaping and a raw text was rendered
\* without error.
C24_Witness ==
    /\ ret[1] = "nil"
    /\ call[1].tree = Element(Div, FALSE, <<>>, <<Text(<<"a", "<">>), RawText(<<"<", "b", ">">>)>>)
    /\ Len(Out(1)) > 10

\* The error a malformed attribute raises.
C25_AttrError(a) ==
    IF TrimSpace(a.key) = <<>> THEN "ErrEmptyKey"
    ELSE IF a.vkind = "nil" THEN "ErrNilValue"
    ELSE "ErrBadType"

\* The index of the first malformed attribute of n.
FirstMalformed(n) ==
    CHOOSE i \in 1 .. Len(n.Attrs) :
        Malformed(n.Attrs[i]) /\ \A j \in 1 .. (i - 1) : ~Malformed(n.Attrs[j])

\* The first error met in pre-order in the tree n ("nil" if none): the
\* attributes of an element before its children, the children in order;
\* the attributes of a fragment and the children of a void element are not
\* visited.
RECURSIVE C25_FirstError(_)
C25_FirstError(n) ==
    LET kids == {i \in 1 .. Len(n.Children) : C25_FirstError(n.Children[i]) # "nil"}
        ofKids == IF kids = {} THEN "nil"
                  ELSE C25_FirstError(n.Children[CHOOSE i \in kids : \A j \in kids : i <= j])
    IN  CASE n.kind \in {"Text", "RawText"} -> "nil"
          [] n.kind = "Custom" -> n.err
          [] OTHER -> IF n.Tag = <<>> THEN ofKids
                      ELSE IF HasMalformed(n) THEN C25_AttrError(n.Attrs[FirstMalformed(n)])
                      ELSE IF n.IsVoid THEN "nil"
                      ELSE ofKids

\* What the scratch buffer of a failed top-level render of n holds: the
\* opening tag up to the attribute before the first malformed one, or the
\* opening tag and the children up to the failing child, that child as far as
\* it got; no later attribute, no later sibling, no closing tag.
C25_Partial(n) ==
    LET kids == {i \in 1 .. Len(n.Children) : C25_FirstError(n.Children[i]) # "nil"}
        upTo == KidsBytes(SubSeq(n.Children, 1, CHOOSE i \in kids : \A j \in kids : i <= j))
    IN  IF n.Tag = <<>> THEN upTo
        ELSE IF HasMalformed(n)
        THEN <<"<">> \o n.Tag
                \o Concat([i \in 1 .. (FirstMalformed(n) - 1) |-> AttrBytes(n.Attrs[i])])
        ELSE OpenTag(n) \o upTo

\* C25: a frame that holds a render error does nothing but return it: its
\* next step hands the error, unchanged, to its caller, whose buffer and
\* destination receive nothing; the buffer of a failed top-level render holds
\* what was serialized up to the failure and nothing after it; and the error
\* Render returns is the first one met in pre-order.
C25_Step ==
    \A p \in Procs :
        /\ (stack[p] # <<>> /\ Top(p).err \in RenderErrs) =>
              /\ Len(stack[p]) = 1 => bufs[Top(p).buf] = C25_Partial(call[p].tree)
              /\ \/ stack'[p] = stack[p]
                 \/ /\ Len(stack'[p]) = Len(stack[p]) - 1
                    /\ writes'[p] = writes[p]
                    /\ IF Len(stack[p]) = 1 THEN ret'[p] = Top(p).err
                       ELSE /\ Top(p)'.err = Top(p).err
                            /\ bufs'[Top(p)'.buf] = bufs[Top(p)'.buf]
        /\ ret'[p] \in RenderErrs => ret'[p] = C25_FirstError(call'[p].tree)

C25_FirstErrorStops == [][C25_Step]_vars

\* A div whose first child failed after writing "c": the buffer holds
\* <div>c, and the second child, a custom node, was not rendered.
C25_Witness ==
    /\ Len(stack[1]) = 1
    /\ stack[1][1].err = "ErrCustom"
    /\ call[1].tree = Element(Div, FALSE, <<>>,
                              <<Custom(<<"c">>, "ErrCustom"), Custom(<<"c">>, "nil")>>)
    /\ bufs[stack[1][1].buf] = <<"<", "d", "i", "v", ">", "c">>

(***************************************************************************)
(* Properties of attribute batches, of the pool and of fragments.          *)
(***************************************************************************)
\* The KV arguments of the recorded constructor call, in order.
KVArgs == SelectSeq(input.args, LAMBDA a : a.akind = "KV")

\* The number of attributes in the first j of the KV maps kvs.
RECURSIVE BatchEnd(_, _)
BatchEnd(kvs, j) == IF j = 0 THEN 0 ELSE BatchEnd(kvs, j - 1) + Cardinality(kvs[j].kv)

\* C26: the attribute list of an element built by one constructor call is
\* the batches of its KV arguments one after the other, in the order of the
\* arguments: the j-th batch holds the entries of the j-th KV, each once, as
\* they were given; a successful render writes the attributes in the order
\* of the list; and a key given in two batches is written twice.
C26_Batches ==
    input.ctor \in {"Div", "Empty", "newVoidElem"} =>
        /\ Len(shared.Attrs) = BatchEnd(KVArgs, Len(KVArgs))
        /\ \A j \in 1 .. Len(KVArgs) :
            {shared.Attrs[i] : i \in (BatchEnd(KVArgs, j - 1) + 1) .. BatchEnd(KVArgs, j)}
                = KVArgs[j].kv
        /\ (ret[1] = "nil" /\ shared.Tag # <<>>) =>
               SubSeq(Out(1), 1, Len(OpenTag(shared))) = OpenTag(shared)
        /\ (ret[1] = "nil" /\ input = In("Div", Div, <<KVArg({StrAttr(Id, <<"x">>)}),
                                                        KVArg({StrAttr(Id, <<"x">>)})>>)) =>
               Out(1) = <<"<", "d", "i", "v", " ", "i", "d", "=", "\"", "x", "\"", " ", "i",
                 "d", "=", "\"", "x", "\"", ">", "<", "/", "d", "i", "v", ">">>

\* Three batches, the second of two entries: the element was built with the
\* first batch first and the third last, and rendered.
C26_Witness ==
    /\ input = In("Div", Div, <<KVArg({StrAttr(Id, <<"x">>)}), KVArg(KVClassId),
                                KVArg({BoolAttr(<<"h">>, TRUE)})>>)
    /\ Len(shared.Attrs) = 4
    /\ shared.Attrs[1] = StrAttr(Id, <<"x">>)
    /\ shared.Attrs[4] = BoolAttr(<<"h">>, TRUE)
    /\ ret[1] = "nil"

\* C27: every buffer resting in the pool is empty, a frame that has taken its
\* buffer and not yet rendered finds it empty, and the bytes a successful
\* render hands to the destination are the serialization of its own tree.
C27_PoolEmpty ==
    /\ \A b \in pool : bufs[b] = <<>>
    /\ \A x \in FrameIds :
        (FrameAt(x).pc = "render" /\ FrameAt(x).todo = <<NodeItem(FrameAt(x).me)>>
            /\ FrameAt(x).err = "nil") => bufs[FrameAt(x).buf] = <<>>
    /\ \A p \in Procs :
        ret[p] = "nil" => Out(p) = renderElement(call[p].tree, <<>>).buf

\* A render failed after the opening tag and a text were serialized, and the
\* buffer it used rests in the pool, empty.
C27_Witness ==
    /\ ret[1] = "ErrEmptyKey"
    /\ call[1].tree.Children[1] = Text(<<"o">>)
    /\ stack[1] = <<>>
    /\ pool # {}
    /\ \A b \in pool : bufs[b] = <<>>

BlankKey(a) == TrimSpace(a.key) = <<>>

\* C28: the render of an element with a non-empty tag whose first malformed
\* attribute has an empty or white-space key fails with the error of the
\* key, also when the value of that attribute is the boolean false; and when
\* every attribute has a valid key and a string or boolean value, the
\* attributes cause no error, boolean false values included.
C28_KeyFirst ==
    \A p \in Procs :
        LET t == call[p].tree
        IN  (Done(p) /\ t.Tag # <<>>) =>
                /\ (HasMalformed(t) /\ BlankKey(t.Attrs[FirstMalformed(t)])) =>
                       ret[p] = "ErrEmptyKey"
                /\ (~HasMalformed(t) /\ t.Children = <<Text(<<"t">>)>>) =>
                       ret[p] \notin RenderErrs

\* A div whose second attribute has a white-space key and the value false:
\* the render failed on the key.
C28_Witness ==
    /\ ret[1] = "ErrEmptyKey"
    /\ call[1].tree.Tag = Div
    /\ call[1].tree.Attrs = <<BoolAttr(<<"h">>, FALSE), BoolAttr(<<LineSeparator>>, FALSE)>>

\* C29: Empty(args...) delivers the Write calls and returns the error of
\* Empty called with the arguments that are not KV maps, whatever the
\* attributes, malformed ones included.
C29_EmptyIgnoresAttrs ==
    (input.ctor = "Empty" /\ Done(1)) =>
        \A e \in newElem(<<>>, ChildArgs) :
            LET r == ElementRender(e, call[1].wfail)
            IN  writes[1] = r.writes /\ ret[1] = r.err

\* Empty(KV{"id": nil, " ": "v"}, "a<") rendered as a&lt;.
C29_Witness ==
    /\ input = In("Empty", <<>>, <<KVArg({NilAttr(Id), StrAttr(<<VT>>, <<"v">>)}),
                                   StrArg(<<"a", "<">>)>>)
    /\ ret[1] = "nil"
    /\ Out(1) = <<"a", "&", "l", "t", ";">>

\* C30: an element built by a container constructor has one child for each
\* argument that is not a KV map, in the order of those arguments, and is
\* an element the constructor can build from the same arguments with the KV
\* maps moved to the front; Div("a", KV{"id": "x"}, "b") and
\* Div(KV{"id": "x"}, "a", "b") both render <div id="x">ab</div>.
C30_Arguments ==
    input.ctor \in {"Div", "Empty"} =>
        /\ Len(shared.Children) = Len(ChildArgs)
        /\ \A e \in newElem(input.tag, ChildArgs) : shared.Children = e.Children
        /\ shared \in newElem(input.tag, KVArgs \o ChildArgs)
        /\ (ret[1] = "nil"
              /\ input \in {In("Div", Div, <<StrArg(<<"a">>), KVArg({StrAttr(Id, <<"x">>)}), StrArg(<<"b">>)>>),
                            In("Div", Div, <<KVArg({StrAttr(Id, <<"x">>)}), StrArg(<<"a">>), StrArg(<<"b">>)>>)}) =>
               Out(1) = <<"<", "d", "i", "v", " ", "i", "d", "=", "\"", "x", "\"", ">", "a",
                 "b", "<", "/", "d", "i", "v", ">">>

\* Div("a", KV{"id": "x"}, "b") rendered as <div id="x">ab</div>.
C30_Witness ==
    /\ input = In("Div", Div, <<StrArg(<<"a">>), KVArg({StrAttr(Id, <<"x">>)}), StrArg(<<"b">>)>>)
    /\ ret[1] = "nil"
    /\ Out(1) = <<"<", "d", "i", "v", " ", "i", "d", "=", "\"", "x", "\"", ">", "a", "b",
                "<", "/", "d", "i", "v", ">">>
====
